---------------------------- MODULE Spec2Model ----------------------------
(***************************************************************************)
(* Model of the M16 modem library: the 16-bit frame codec (the 3-3-10      *)
(* coder_decoder namespace and the 4-4-8 M16::encode / M16::decode) and    *)
(* the M16 session driver (switchOperationMode, setCommunicationChannel,   *)
(* setPowerLevel, sendPacket, requestReport) over an abstract UART.        *)
(***************************************************************************)
EXTENDS Integers, Sequences, FiniteSets, TLC

VARIABLES
    \* ---- codec harness (coder_decoder:: and M16:: encode / decode) ----
    layout,       \* "none", "3-3-10" (coder_decoder), "4-4-8" (M16), or
                  \* "4-4-8-bytes" (M16::decode on a 2-byte buffer), or
                  \* "3-3-10-code" (the earlier coder_decoder::code / decode)
    encArgs,      \* arguments of the last encode call
    word,         \* unsigned short returned by the last encode call, -1 if none
    decIn,        \* unsigned short handed to the last decode call, -1 if none
    frameOut,     \* ProtocolStructure returned by the last decode call
    \* ---- M16 driver ----
    pc,           \* "idle", "delay" inside a vTaskDelay of a call, or "poll"
                  \* inside requestReport's while loop
    op,           \* the current / last call: [name, args]
    result,       \* what the last call returned: "none", "void", "true", "false"
    console,      \* what the last call printed on Serial
    trace,        \* UART writes and task delays of the current / last call
    report,       \* M16::report
    reportBefore, \* value of M16::report when the current / last call started
    reportBytes,  \* requestReport local: bytes stored in reportBytes[] so far
    retries,      \* requestReport local: uint8_t retries
    bytesRead,    \* requestReport local: size_t bytesRead
    stream,       \* bytes the UART will hand to this call's reads, in arrival order
    delivered,    \* how many bytes of stream uart_read_bytes has handed over
    wrote,        \* what uart_write_bytes returned to the last sendPacket, 0 if none
    pending,      \* what the current call still has to do: the vTaskDelay it is
                  \* in, and the writes and delays after it
    installed,    \* uart_driver_install has succeeded: the UART driver exists
    \* ---- counters kept beside the driver ----
    modeCalls,    \* switchOperationMode calls made so far
    modeBytes,    \* bytes 0x6D those calls have written so far
    attempts,     \* uart_read_bytes calls of the current / last requestReport
    stale,        \* leading bytes of stream received before the call started
    \* ---- the receive side: getRxBuffLength, readRxBuff and the input buffer ----
    rxPc,         \* "idle", or "flush" between readRxBuff's read and its flush
    rxBuf,        \* bytes in the UART input buffer, oldest first
    rxSent,       \* bytes the modem has delivered so far; byte i has the value i
    rxLen,        \* what the last getRxBuffLength returned, -1 once it is used up
    rxArg,        \* length argument of the current / last readRxBuff
    rxNum,        \* what uart_read_bytes returned in the current / last readRxBuff
    rxData,       \* bytes the current / last readRxBuff stored in data[]
    appData       \* bytes the readRxBuff calls that returned have handed over

codecVars == <<layout, encArgs, word, decIn, frameOut>>
localVars == <<reportBytes, retries, bytesRead, stream, delivered>>
countVars == <<modeCalls, modeBytes, attempts, stale>>
rxVars == <<rxPc, rxBuf, rxSent, rxLen, rxArg, rxNum, rxData, appData>>
sessionVars ==
    <<pc, op, result, console, trace, report, reportBefore, localVars, wrote,
      pending, installed, countVars>>
driverVars == <<sessionVars, rxVars>>
vars == <<codecVars, driverVars>>

---------------------------------------------------------------------------
(* Bounds of the model: the sizes of the input sets.                       *)

\* ids and command values 0..MaxField are tried (plus a few wide ones)
MaxField == 16
\* data values 0..MaxData are tried (plus a few wide ones)
MaxData == 4
\* sendPacket arguments 0..MaxSend are tried (plus a few wide ones)
MaxSend == 1
\* channel and power level arguments 0..MaxArg are tried (plus 255)
MaxArg == 13
\* number of generated response streams besides the documented example
NumSeeds == 4
\* bytes that follow the 18 report bytes on the line
ExtraBytes == 2
\* switchOperationMode calls that are counted
MaxModeCalls == 3
\* values 0..MaxReserved are stored in report.reserved and report.reserved2
MaxReserved == 1
\* bytes the modem delivers to the input buffer
MaxRx == 4
\* length arguments 0..MaxRxLen are handed to readRxBuff
MaxRxLen == 3
\* an uninitialised size_t is followed for the values 0..MaxUninitLen and for
\* one value beyond every stack
MaxUninitLen == 80
\* the receive loop is followed as long as it has printed at most MaxGarbage
\* array elements that nothing was written to
MaxGarbage == 1
\* most bytes unread in the input buffer when requestReport is called
MaxStale == 2

---------------------------------------------------------------------------
(* C integer arithmetic.                                                   *)

RECURSIVE Pow2(_)
Pow2(n) == IF n = 0 THEN 1 ELSE 2 * Pow2(n - 1)

RECURSIVE BitAnd(_, _)
BitAnd(a, b) ==
    IF a = 0 \/ b = 0 THEN 0
    ELSE ((a % 2) * (b % 2)) + 2 * BitAnd(a \div 2, b \div 2)

RECURSIVE BitOr(_, _)
BitOr(a, b) ==
    IF a = 0 THEN b
    ELSE IF b = 0 THEN a
    ELSE (IF (a % 2) + (b % 2) > 0 THEN 1 ELSE 0) + 2 * BitOr(a \div 2, b \div 2)

Shl(a, k) == a * Pow2(k)
Shr(a, k) == a \div Pow2(k)

\* conversion to unsigned char / uint8_t and to unsigned short / uint16_t
U8(x) == x % 256
U16(x) == x % 65536

Min(a, b) == IF a < b THEN a ELSE b

---------------------------------------------------------------------------
(* coder_decoder: the 3-3-10 codec.                                        *)

\* enum Command : unsigned char { SEND, TEST = 0b101 }
coder_Commands == {0, 5}

\* a faulty encode: the fields are shifted without being masked
bad_encode_unmasked(id, command, data) ==
    LET m0 == 0
        m1 == U16(BitOr(m0, Shl(id, 5 + 8)))
        m2 == U16(BitOr(m1, Shl(command, 2 + 8)))
        m3 == U16(BitOr(m2, BitAnd(1023, data)))
    IN  m3

\* a faulty encode: the command field is placed one bit too low
bad_encode_shift(id, command, data) ==
    LET m0 == 0
        m1 == U16(BitOr(m0, Shl(BitAnd(7, id), 5 + 8)))
        m2 == U16(BitOr(m1, Shl(BitAnd(7, command), 2 + 7)))
        m3 == U16(BitOr(m2, BitAnd(1023, data)))
    IN  m3

\* coder_decoder::encode
encode(id, command, data) ==
    LET m0 == 0
        m1 == U16(BitOr(m0, Shl(BitAnd(7, id), 5 + 8)))
        m2 == U16(BitOr(m1, Shl(BitAnd(7, command), 2 + 8)))
        m3 == U16(BitOr(m2, BitAnd(1023, data)))
    IN  m3

\* a faulty decode: the data mask misses bit 9
bad_decode_narrowData(messageToDecode) ==
    [id      |-> U8(BitAnd(7, Shr(messageToDecode, 5 + 8))),
     command |-> U8(BitAnd(7, Shr(messageToDecode, 2 + 8))),
     data    |-> U16(BitAnd(messageToDecode, 511))]

\* coder_decoder::decode
decode(messageToDecode) ==
    [id      |-> U8(BitAnd(7, Shr(messageToDecode, 5 + 8))),
     command |-> U8(BitAnd(7, Shr(messageToDecode, 2 + 8))),
     data    |-> U16(BitAnd(messageToDecode, 1023))]

---------------------------------------------------------------------------
(* The earlier coder_decoder: code and decode of the first protocol.cpp.   *)

\* coder_decoder::code: id and command are shifted without a mask, and each
\* "codedMessage |= ..." converts the int result back to unsigned short
code(id, command, data) ==
    LET m0 == 0
        m1 == U16(BitOr(m0, Shl(id, 5 + 8)))
        m2 == U16(BitOr(m1, Shl(command, 2 + 8)))
        m3 == U16(BitOr(m2, BitAnd(1023, data)))
    IN  m3

\* coder_decoder::decode of the same file
code_decode(messageToDecode) ==
    [id      |-> U8(BitAnd(7, Shr(messageToDecode, 5 + 8))),
     command |-> U8(BitAnd(7, Shr(messageToDecode, 2 + 8))),
     data    |-> U16(BitAnd(messageToDecode, 1023))]

---------------------------------------------------------------------------
(* M16: the 4-4-8 codec.                                                   *)

\* enum Command : uint8_t { HI, ..., SENSOR_DATA_RECEIVED }
M16_Commands == 0 .. 7

\* the data parameter is an unsigned char: the argument is converted first
M16_encode(id, command, data) ==
    LET d  == U8(data)
        m0 == 0
        m1 == U16(BitOr(m0, Shl(BitAnd(15, id), 4 + 8)))
        m2 == U16(BitOr(m1, Shl(BitAnd(15, command), 8)))
        m3 == U16(BitOr(m2, BitAnd(255, d)))
    IN  m3

\* a faulty decode: a command that is no enumerator is replaced by HI
bad_M16_decode_knownOnly(messageToDecode) ==
    [id      |-> U8(BitAnd(15, Shr(messageToDecode, 4 + 8))),
     command |-> IF U8(BitAnd(15, Shr(messageToDecode, 8))) \in M16_Commands
                 THEN U8(BitAnd(15, Shr(messageToDecode, 8)))
                 ELSE 0,
     data    |-> U16(BitAnd(messageToDecode, 255))]

\* M16::decode(unsigned short messageToDecode)
M16_decode(messageToDecode) ==
    [id      |-> U8(BitAnd(15, Shr(messageToDecode, 4 + 8))),
     command |-> U8(BitAnd(15, Shr(messageToDecode, 8))),
     data    |-> U16(BitAnd(messageToDecode, 255))]

\* a faulty byte decode: the id is taken from the low nibble of the first byte
bad_M16_decodeBytes_lowNibble(m) ==
    [id      |-> U8(BitAnd(15, m[1])),
     command |-> U8(BitAnd(15, m[1])),
     data    |-> U16(m[2])]

\* M16::decode(uint8_t *messageToDecode); m[1], m[2] are messageToDecode[0], [1]
M16_decodeBytes(m) ==
    [id      |-> U8(BitAnd(15, Shr(m[1], 4))),
     command |-> U8(BitAnd(15, m[1])),
     data    |-> U16(m[2])]

---------------------------------------------------------------------------
(* Inputs of the codec.                                                    *)

\* unsigned char id / Command values handed to encode
FieldVals == (0 .. MaxField) \cup {85, 128, 170, 255}
\* unsigned short data values handed to encode
DataVals == (0 .. MaxData) \cup
            {255, 256, 341, 682, 1023, 1024, 2047, 8191, 64853, 65535}
\* unsigned short words handed to decode
WordVals == {encode(i, c, d) : i \in {0, 5, 7}, c \in 0 .. 7, d \in {0, 341, 1023}}
            \cup {M16_encode(i, c, d) : i \in {0, 9, 15}, c \in 0 .. 15, d \in {0, 170, 255}}

\* arguments handed to sendPacket
SendFieldVals == (0 .. MaxSend) \cup {15, 255}
SendDataVals == (0 .. MaxSend) \cup {255, 341}
\* uint8_t ID values handed to the earlier sendPacket(ID, data)
LegacyIds == SendFieldVals \cup {7, 8}
\* ProtocolStructure values handed to sendPacket
SendFrames == [id : SendFieldVals, command : SendFieldVals, data : SendDataVals]
\* the ones tried between requestReport calls
FewFrames == {f \in SendFrames : f.id = f.command /\ f.data \in {0, 341}}

\* uint8_t channel / powerLevel arguments tried between requestReport calls
ArgVals == (0 .. MaxArg) \cup {255}

Layouts == {"3-3-10", "4-4-8"}

NoArgs == [id |-> -1, command |-> -1, data |-> -1]
NoFrame == [id |-> -1, command |-> -1, data |-> -1]

Encode(L, id, command, data) ==
    IF L = "3-3-10" THEN encode(id, command, data)
    ELSE IF L = "3-3-10-code" THEN code(id, command, data)
    ELSE M16_encode(id, command, data)

\* under "4-4-8-bytes" the two bytes of w, high byte first, are the buffer
\* handed to M16::decode(uint8_t *)
Decode(L, w) ==
    IF L = "3-3-10" THEN decode(w)
    ELSE IF L = "3-3-10-code" THEN code_decode(w)
    ELSE IF L = "4-4-8-bytes" THEN M16_decodeBytes(<<w \div 256, w % 256>>)
    ELSE M16_decode(w)

IdBits(L) == IF L \in {"3-3-10", "3-3-10-code"} THEN 3 ELSE 4
CommandBits(L) == IF L \in {"3-3-10", "3-3-10-code"} THEN 3 ELSE 4
DataBits(L) == IF L \in {"3-3-10", "3-3-10-code"} THEN 10 ELSE 8
Commands(L) == IF L \in {"3-3-10", "3-3-10-code"} THEN coder_Commands ELSE M16_Commands

\* every argument triple that fits the layout: id and data within their field
\* widths, command an enumerator
FittingArgs(L) ==
    [id : 0 .. (Pow2(IdBits(L)) - 1),
     command : Commands(L),
     data : 0 .. (Pow2(DataBits(L)) - 1)]
\* argument triples with values wider than the fields
WideArgs == [id : FieldVals, command : FieldVals, data : DataVals]

---------------------------------------------------------------------------
(* The codec harness: encode and decode applied to drawn inputs.           *)

CodecIdle ==
    /\ layout = "none"
    /\ encArgs = NoArgs
    /\ word = -1
    /\ decIn = -1
    /\ frameOut = NoFrame

\* the arguments of an encode call, or the argument of a decode call, are drawn
CodecInputs ==
    /\ layout \in Layouts
    /\ word = -1
    /\ frameOut = NoFrame
    /\ \/ /\ encArgs \in FittingArgs(layout) \cup WideArgs
          /\ decIn = -1
       \/ /\ encArgs = NoArgs
          /\ decIn \in WordVals

\* encode(id, command, data)
CallEncode ==
    /\ encArgs # NoArgs
    /\ word = -1
    /\ word' = Encode(layout, encArgs.id, encArgs.command, encArgs.data)
    /\ UNCHANGED <<layout, encArgs, decIn, frameOut>>
    /\ UNCHANGED driverVars

\* decode(codedMessage) on the word encode returned, as main() does
CallDecodeEncoded ==
    /\ word # -1
    /\ decIn = -1
    /\ decIn' = word
    /\ frameOut' = Decode(layout, word)
    /\ UNCHANGED <<layout, encArgs, word>>
    /\ UNCHANGED driverVars

\* decode(messageToDecode) on a word from the line
CallDecode ==
    /\ encArgs = NoArgs
    /\ decIn # -1
    /\ frameOut = NoFrame
    /\ frameOut' = Decode(layout, decIn)
    /\ UNCHANGED <<layout, encArgs, word, decIn>>
    /\ UNCHANGED driverVars

\* encode(decodedMessage) on the frame a decode call returned
CallEncodeDecoded ==
    /\ encArgs = NoArgs
    /\ frameOut # NoFrame
    /\ word = -1
    /\ encArgs' = frameOut
    /\ word' = Encode(layout, frameOut.id, frameOut.command, frameOut.data)
    /\ UNCHANGED <<layout, decIn, frameOut>>
    /\ UNCHANGED driverVars

---------------------------------------------------------------------------
(* The M16 driver.                                                         *)

\* struct Report, every member initialised to 0
ReportInit ==
    [startOfFrame |-> 0, transportBlock |-> 0, bitErrorRate |-> 0,
     signalPower |-> 0, noisePower |-> 0, packetValid |-> 0,
     packedInvalid |-> 0, firmwareVersion |-> 0, timeSinceBoot |-> 0,
     chipID |-> 0, hwRev |-> 0, channel |-> 0, tbValid |-> 0,
     txComplete |-> 0, diagnostic |-> 0, reserved |-> 0, powerLevel |-> 0,
     reserved2 |-> 0, endOfFrame |-> 0]

\* sizeof(reportBytes)
ReportSize == 18
\* the bound in "retries++ > 100"
RetryLimit == 100

\* trigger bytes
ModeTrigger == 109
ChannelTrigger == 99
PowerTrigger == 108
ReportTrigger == 114

\* events of a call: uart_write_bytes(bytes) and vTaskDelay(pdMS_TO_TICKS(ms))
Write(bs) == [kind |-> "write", bytes |-> bs, ms |-> 0]
Delay(t) == [kind |-> "delay", bytes |-> <<>>, ms |-> t]

\* M16::sendByte(byte): one uart_write_bytes of one byte
sendByte(byte) == Write(<<U8(byte)>>)

\* the locals of requestReport do not exist outside the call
NoLocals ==
    /\ reportBytes' = <<>>
    /\ retries' = 0
    /\ bytesRead' = 0
    /\ stream' = <<>>
    /\ delivered' = 0

\* the events of a sequence that come before its first vTaskDelay
RECURSIVE UpToDelay(_)
UpToDelay(events) ==
    IF events = <<>> \/ Head(events).kind = "delay" THEN <<>>
    ELSE <<Head(events)>> \o UpToDelay(Tail(events))

\* the first vTaskDelay of a sequence and what comes after it
FromDelay(events) == SubSeq(events, Len(UpToDelay(events)) + 1, Len(events))

\* a call whose statements are the sequence events: it runs up to its first
\* vTaskDelay and waits there, or returns res when it has none
Call(name, args, res, printed, events) ==
    /\ pc = "idle"
    /\ pc' = IF FromDelay(events) = <<>> THEN "idle" ELSE "delay"
    /\ op' = [name |-> name, args |-> args]
    /\ result' = IF FromDelay(events) = <<>> THEN res ELSE "none"
    /\ console' = printed
    /\ trace' = UpToDelay(events)
    /\ pending' = FromDelay(events)
    /\ reportBefore' = report
    /\ UNCHANGED <<report, installed>>
    /\ NoLocals
    /\ UNCHANGED <<codecVars, rxVars>>

\* the vTaskDelay a call waits in has elapsed: the call runs on to its next
\* vTaskDelay, or to its end, where next and res say how it goes on
Wake(name, next, res) ==
    /\ pc = "delay"
    /\ op.name = name
    /\ trace' = trace \o <<Head(pending)>> \o UpToDelay(Tail(pending))
    /\ pending' = FromDelay(Tail(pending))
    /\ pc' = IF pending' = <<>> THEN next ELSE "delay"
    /\ result' = IF pending' = <<>> THEN res ELSE result
    /\ UNCHANGED <<op, console, report, reportBefore, localVars, wrote, installed>>
    /\ UNCHANGED <<codecVars, rxVars>>

\* a void function comes out of a vTaskDelay
Resume(name) == Wake(name, "idle", "void") /\ UNCHANGED countVars

\* M16::begin: uart_param_config, uart_set_pin, uart_driver_install; each
\* failure is printed (followed by eol) and the function goes on
BeginMessages(eol, cfgOk, pinOk, instOk) ==
    (IF cfgOk THEN "" ELSE "Failed to configure UART parameters for M16." \o eol)
    \o (IF pinOk THEN "" ELSE "Failed to set UART pins for M16." \o eol)
    \o (IF instOk THEN "" ELSE "Failed to install UART driver for M16." \o eol)

Begin(name, eol, cfgOk, pinOk, instOk) ==
    /\ pc = "idle"
    /\ pc' = "idle"
    /\ op' = [name |-> name, args |-> <<>>]
    /\ result' = "void"
    /\ console' = BeginMessages(eol, cfgOk, pinOk, instOk)
    /\ trace' = <<>>
    /\ pending' = <<>>
    /\ installed' = (installed \/ instOk)
    /\ reportBefore' = report
    /\ UNCHANGED report
    /\ NoLocals
    /\ wrote' = 0
    /\ UNCHANGED countVars
    /\ UNCHANGED <<codecVars, rxVars>>

\* begin(rx_pin, tx_pin) with Serial.println
begin(cfgOk, pinOk, instOk) == Begin("begin", "\r\n", cfgOk, pinOk, instOk)

\* begin(rx_pin, tx_pin) of the earlier driver, with Serial.print
legacy_begin(cfgOk, pinOk, instOk) == Begin("legacy_begin", "", cfgOk, pinOk, instOk)

\* a call that is not sendPacket
Returns(name, args, res, printed, events) ==
    /\ Call(name, args, res, printed, events)
    /\ wrote' = 0
    /\ UNCHANGED countVars

\* a faulty sequence: the mode byte is written once
bad_ModeEvents_single == <<sendByte(ModeTrigger)>>

\* a faulty sequence: after a call that returned false the mode byte is
\* written once
bad_ModeEvents_afterFailure ==
    IF result = "false"
    THEN <<sendByte(ModeTrigger)>>
    ELSE <<sendByte(ModeTrigger), Delay(1000), sendByte(ModeTrigger)>>

\* sendByte(0x6d), vTaskDelay(1000 ms), sendByte(0x6d)
ModeEvents == <<sendByte(ModeTrigger), Delay(1000), sendByte(ModeTrigger)>>

switchOperationMode ==
    Returns("switchOperationMode", <<>>, "void", "", ModeEvents)

\* switchOperationMode after its vTaskDelay: the second sendByte(0x6d)
switchOperationModeResume == Resume("switchOperationMode")

\* how many of the bytes written by a sequence of events are the byte b
RECURSIVE CountByte(_, _)
CountByte(events, b) ==
    IF events = <<>> THEN 0
    ELSE Cardinality({i \in DOMAIN Head(events).bytes : Head(events).bytes[i] = b})
         + CountByte(Tail(events), b)

\* switchOperationMode, with the calls and the bytes 0x6D they write counted
switchOperationModeCounted ==
    /\ modeCalls < MaxModeCalls
    /\ Call("switchOperationMode", <<>>, "void", "", ModeEvents)
    /\ wrote' = 0
    /\ modeCalls' = modeCalls + 1
    /\ modeBytes' = modeBytes + CountByte(trace', ModeTrigger)
    /\ UNCHANGED <<attempts, stale>>

switchOperationModeResumeCounted ==
    /\ Wake("switchOperationMode", "idle", "void")
    /\ modeBytes' = modeBytes + CountByte(trace', ModeTrigger)
                     - CountByte(trace, ModeTrigger)
    /\ UNCHANGED <<modeCalls, attempts, stale>>

\* a faulty channel character: a digit for every channel
bad_ChannelChar_digits(channel) == 48 + channel

\* the channel character: '0' + channel for 1..9, 'a' + (channel - 10) above
ChannelChar(channel) ==
    IF channel <= 9 THEN 48 + channel ELSE 97 + (channel - 10)

\* a faulty range test: channel 0 passes
bad_ChannelValid_zero(channel) == ~(channel > 12)

\* the negation of "channel < 1 || channel > 12"
ChannelValid(channel) == ~(channel < 1 \/ channel > 12)

\* a faulty sequence: the gap of setPowerLevel before the channel character
bad_ChannelEvents_gap(channel) ==
    <<sendByte(ChannelTrigger), Delay(1000), sendByte(ChannelTrigger),
      Delay(1500), sendByte(ChannelChar(channel))>>

ChannelEvents(channel) ==
    <<sendByte(ChannelTrigger), Delay(1000), sendByte(ChannelTrigger),
      Delay(1), sendByte(ChannelChar(channel))>>

setCommunicationChannel(channel) ==
    IF ~ChannelValid(channel)
    THEN Returns("setCommunicationChannel", <<channel>>, "void",
                 "Wrong channel\n", <<>>)
    ELSE Returns("setCommunicationChannel", <<channel>>, "void", "",
                 ChannelEvents(channel))

\* setCommunicationChannel after one of its two vTaskDelay calls
setCommunicationChannelResume == Resume("setCommunicationChannel")

\* setCommunicationChannel of the earlier driver: an invalid channel returns
\* without printing ("Invalid channel, do nothing")
legacy_setCommunicationChannel(channel) ==
    IF ~ChannelValid(channel)
    THEN Returns("legacy_setCommunicationChannel", <<channel>>, "void", "", <<>>)
    ELSE Returns("legacy_setCommunicationChannel", <<channel>>, "void", "",
                 ChannelEvents(channel))

\* the earlier setCommunicationChannel after one of its two vTaskDelay calls
legacy_setCommunicationChannelResume == Resume("legacy_setCommunicationChannel")

\* the negation of "powerLevel < 1 || powerLevel > 4"
PowerValid(powerLevel) == ~(powerLevel < 1 \/ powerLevel > 4)

\* a faulty sequence: the gap of setCommunicationChannel before the level
bad_PowerEvents_gap(powerLevel) ==
    <<sendByte(PowerTrigger), Delay(1000), sendByte(PowerTrigger),
      Delay(1), sendByte(48 + powerLevel)>>

PowerEvents(powerLevel) ==
    <<sendByte(PowerTrigger), Delay(1000), sendByte(PowerTrigger),
      Delay(1500), sendByte(48 + powerLevel)>>

setPowerLevel(powerLevel) ==
    IF ~PowerValid(powerLevel)
    THEN Returns("setPowerLevel", <<powerLevel>>, "void", "", <<>>)
    ELSE Returns("setPowerLevel", <<powerLevel>>, "void", "",
                 PowerEvents(powerLevel))

\* setPowerLevel after one of its two vTaskDelay calls
setPowerLevelResume == Resume("setPowerLevel")

\* a faulty order: the low byte first
bad_sendPacketWord_swapped(packet) ==
    Write(<<BitAnd(packet, 255), BitAnd(Shr(packet, 8), 255)>>)

\* M16::sendPacket(unsigned short packet): two bytes in one uart_write_bytes
sendPacketWord(packet) ==
    Write(<<BitAnd(Shr(packet, 8), 255), BitAnd(packet, 255)>>)

\* what uart_write_bytes returns for two bytes: 2, or -1 (error) when the
\* driver is not installed
WriteResults == IF installed THEN {2} ELSE {-1}

\* M16::sendPacket(id, command, data): encode, then sendPacket(encodedPackage),
\* which drops what uart_write_bytes returned (tx) and returns true
sendPacket(id, command, data, tx) ==
    /\ Call("sendPacket", <<id, command, data>>, "true", "",
            <<sendPacketWord(M16_encode(id, command, data))>>)
    /\ wrote' = tx
    /\ UNCHANGED countVars

\* M16::sendPacket(uint8_t ID, uint16_t data) of the earlier driver:
\* packedData = (ID << 13) | data, converted to uint16_t; two bytes in one
\* uart_write_bytes, whose result (tx) is dropped
legacy_sendPacket(ID, data, tx) ==
    LET packedData == U16(BitOr(Shl(ID, 13), data))
    IN  /\ Call("legacy_sendPacket", <<ID, data>>, "true", "",
                <<Write(<<U8(Shr(packedData, 8)), BitAnd(packedData, 255)>>)>>)
        /\ wrote' = tx
        /\ UNCHANGED countVars

\* M16::sendByte_TEST(uint8_t byte) of the earlier driver: one uart_write_bytes
\* of one byte
legacy_sendByte_TEST(byte) ==
    Returns("legacy_sendByte_TEST", <<byte>>, "void", "", <<sendByte(byte)>>)

\* M16::encode(ProtocolStructure send)
M16_encodeFrame(send) == M16_encode(send.id, send.command, send.data)

\* M16::sendPacket(ProtocolStructure packet)
sendPacketFrame(packet, tx) ==
    /\ Call("sendPacketFrame", <<packet.id, packet.command, packet.data>>,
            "true", "", <<sendPacketWord(M16_encodeFrame(packet))>>)
    /\ wrote' = tx
    /\ UNCHANGED countVars

---------------------------------------------------------------------------
(* M16::requestReport.                                                     *)

\* reportBytes[i] of the C array (0-based) in the 1-based sequence b
At(b, i) == b[i + 1]

\* a faulty parse: the channel mask misses bit 5
bad_ParseReport_channelMask(old, b) ==
    [old EXCEPT
        !.startOfFrame = U8(At(b, 0)),
        !.transportBlock = U16(BitOr(Shl(At(b, 1), 8), At(b, 2))),
        !.bitErrorRate = U8(At(b, 3)),
        !.signalPower = U8(At(b, 4)),
        !.noisePower = U8(At(b, 5)),
        !.packetValid = U16(BitOr(Shl(At(b, 6), 8), At(b, 7))),
        !.packedInvalid = U8(At(b, 8)),
        !.firmwareVersion = U8(At(b, 9)),
        !.timeSinceBoot = BitOr(BitOr(Shl(At(b, 10), 16), Shl(At(b, 11), 8)), At(b, 12)),
        !.chipID = U16(BitOr(Shl(At(b, 13), 8), At(b, 14))),
        !.hwRev = U8(BitAnd(At(b, 15), 3)),
        !.channel = U8(Shr(BitAnd(At(b, 15), 28), 2)),
        !.tbValid = U8(Shr(BitAnd(At(b, 15), 64), 6)),
        !.txComplete = U8(Shr(BitAnd(At(b, 15), 128), 7)),
        !.diagnostic = U8(BitAnd(At(b, 16), 1)),
        !.powerLevel = U8(Shr(BitAnd(At(b, 16), 12), 2)),
        !.endOfFrame = U8(At(b, 17))]

\* a faulty parse: endOfFrame is not assigned
bad_ParseReport_keepsEnd(old, b) ==
    [old EXCEPT
        !.startOfFrame = U8(At(b, 0)),
        !.transportBlock = U16(BitOr(Shl(At(b, 1), 8), At(b, 2))),
        !.bitErrorRate = U8(At(b, 3)),
        !.signalPower = U8(At(b, 4)),
        !.noisePower = U8(At(b, 5)),
        !.packetValid = U16(BitOr(Shl(At(b, 6), 8), At(b, 7))),
        !.packedInvalid = U8(At(b, 8)),
        !.firmwareVersion = U8(At(b, 9)),
        !.timeSinceBoot = BitOr(BitOr(Shl(At(b, 10), 16), Shl(At(b, 11), 8)), At(b, 12)),
        !.chipID = U16(BitOr(Shl(At(b, 13), 8), At(b, 14))),
        !.hwRev = U8(BitAnd(At(b, 15), 3)),
        !.channel = U8(Shr(BitAnd(At(b, 15), 60), 2)),
        !.tbValid = U8(Shr(BitAnd(At(b, 15), 64), 6)),
        !.txComplete = U8(Shr(BitAnd(At(b, 15), 128), 7)),
        !.diagnostic = U8(BitAnd(At(b, 16), 1)),
        !.powerLevel = U8(Shr(BitAnd(At(b, 16), 12), 2))]

\* a faulty parse: tbValid is taken from bit 5, and reserved is written
bad_ParseReport_statusBits(old, b) ==
    [old EXCEPT
        !.startOfFrame = U8(At(b, 0)),
        !.transportBlock = U16(BitOr(Shl(At(b, 1), 8), At(b, 2))),
        !.bitErrorRate = U8(At(b, 3)),
        !.signalPower = U8(At(b, 4)),
        !.noisePower = U8(At(b, 5)),
        !.packetValid = U16(BitOr(Shl(At(b, 6), 8), At(b, 7))),
        !.packedInvalid = U8(At(b, 8)),
        !.firmwareVersion = U8(At(b, 9)),
        !.timeSinceBoot = BitOr(BitOr(Shl(At(b, 10), 16), Shl(At(b, 11), 8)), At(b, 12)),
        !.chipID = U16(BitOr(Shl(At(b, 13), 8), At(b, 14))),
        !.hwRev = U8(BitAnd(At(b, 15), 3)),
        !.channel = U8(Shr(BitAnd(At(b, 15), 60), 2)),
        !.tbValid = U8(Shr(BitAnd(At(b, 15), 32), 5)),
        !.txComplete = U8(Shr(BitAnd(At(b, 15), 128), 7)),
        !.diagnostic = U8(BitAnd(At(b, 16), 1)),
        !.reserved = U8(Shr(BitAnd(At(b, 16), 2), 1)),
        !.powerLevel = U8(Shr(BitAnd(At(b, 16), 12), 2)),
        !.endOfFrame = U8(At(b, 17))]

\* the assignments to this->report; reserved and reserved2 are not assigned
ParseReport(old, b) ==
    [old EXCEPT
        !.startOfFrame = U8(At(b, 0)),
        !.transportBlock = U16(BitOr(Shl(At(b, 1), 8), At(b, 2))),
        !.bitErrorRate = U8(At(b, 3)),
        !.signalPower = U8(At(b, 4)),
        !.noisePower = U8(At(b, 5)),
        !.packetValid = U16(BitOr(Shl(At(b, 6), 8), At(b, 7))),
        !.packedInvalid = U8(At(b, 8)),
        !.firmwareVersion = U8(At(b, 9)),
        !.timeSinceBoot = BitOr(BitOr(Shl(At(b, 10), 16), Shl(At(b, 11), 8)), At(b, 12)),
        !.chipID = U16(BitOr(Shl(At(b, 13), 8), At(b, 14))),
        !.hwRev = U8(BitAnd(At(b, 15), 3)),
        !.channel = U8(Shr(BitAnd(At(b, 15), 60), 2)),
        !.tbValid = U8(Shr(BitAnd(At(b, 15), 64), 6)),
        !.txComplete = U8(Shr(BitAnd(At(b, 15), 128), 7)),
        !.diagnostic = U8(BitAnd(At(b, 16), 1)),
        !.powerLevel = U8(Shr(BitAnd(At(b, 16), 12), 2)),
        !.endOfFrame = U8(At(b, 17))]


\* the 18-byte response of the documented example
ExampleReport ==
    <<170, 1, 2, 16, 32, 48, 0, 5, 1, 2, 0, 1, 0, 18, 52, 181, 5, 85>>

\* what the line carries during a call: a response and the bytes that follow it
StreamLen == ReportSize + ExtraBytes
ExampleStream == ExampleReport \o [j \in 1 .. ExtraBytes |-> U8(255 - j)]
GenStream(seed) ==
    [i \in 1 .. StreamLen |-> U8(seed * 5 + i * (2 * seed + 1) * 7)]
Streams == {ExampleStream} \cup {GenStream(seed) : seed \in 1 .. NumSeeds}

\* a faulty length: every read asks for the whole report
bad_ReadLen_whole(collected) == ReportSize

\* the length argument of uart_read_bytes: sizeof(reportBytes) - bytesRead
ReadLen(collected) == ReportSize - collected

\* what uart_read_bytes may return: -1 (error), or the number of bytes read,
\* at most the length asked for and at most what the line still carries; only
\* -1 when the driver is not installed
ReadResults ==
    IF installed THEN -1 .. Min(ReadLen(bytesRead), Len(stream) - delivered)
    ELSE {-1}

\* a faulty sequence: the report byte is written once
bad_ReportEvents_single == <<sendByte(ReportTrigger)>>

\* sendByte(0x72), vTaskDelay(1000 ms), sendByte(0x72)
ReportEvents == <<sendByte(ReportTrigger), Delay(1000), sendByte(ReportTrigger)>>

\* requestReport up to its vTaskDelay (or to its loop when it has none); s is
\* what the line will hand to its reads, and the locals have the values that
\* their initialisers give them before the loop
ReportBegin(s) ==
    /\ pc = "idle"
    /\ pc' = IF FromDelay(ReportEvents) = <<>> THEN "poll" ELSE "delay"
    /\ op' = [name |-> "requestReport", args |-> <<>>]
    /\ result' = "none"
    /\ console' = ""
    /\ trace' = UpToDelay(ReportEvents)
    /\ pending' = FromDelay(ReportEvents)
    /\ reportBefore' = report
    /\ UNCHANGED <<report, installed>>
    /\ reportBytes' = <<>>
    /\ retries' = 0
    /\ bytesRead' = 0
    /\ stream' = s
    /\ delivered' = 0
    /\ wrote' = 0
    /\ UNCHANGED <<codecVars, rxVars>>

\* a faulty timeout: the first collected byte is stored in the report
bad_TimedOut_partial ==
    /\ pc' = "idle"
    /\ result' = "false"
    /\ report' = IF bytesRead > 0
                 THEN [report EXCEPT !.startOfFrame = U8(At(reportBytes, 0))]
                 ELSE report

\* a faulty timeout: the loop goes on when retries is above the limit
bad_TimedOut_again ==
    /\ pc' = "poll"
    /\ UNCHANGED <<result, report>>

\* return false
TimedOut ==
    /\ pc' = "idle"
    /\ result' = "false"
    /\ UNCHANGED report

\* the loop condition holds again: the next uart_read_bytes
Again ==
    /\ pc' = "poll"
    /\ UNCHANGED <<result, report>>

\* a faulty return: a response without the markers 0xAA and 0x55 is refused
bad_Parsed_checked(bytes) ==
    IF U8(At(bytes, 0)) = 170 /\ U8(At(bytes, 17)) = 85
    THEN /\ pc' = "idle"
         /\ result' = "true"
         /\ report' = ParseReport(report, bytes)
    ELSE /\ pc' = "idle"
         /\ result' = "false"
         /\ UNCHANGED report

\* the loop is left: the report is parsed, return true
Parsed(bytes) ==
    /\ pc' = "idle"
    /\ result' = "true"
    /\ report' = ParseReport(report, bytes)

\* a faulty loop: an attempt that yields bytes starts the count of retries anew
bad_RetriesKept_reset == retries' = 0

\* a faulty loop: an attempt that yields bytes takes one retry back
bad_RetriesKept_back == retries' = IF retries > 0 THEN retries - 1 ELSE 0

\* "if (result > 0) bytesRead += result;" does not touch retries
RetriesKept == UNCHANGED retries

\* one iteration of the while loop; n is what uart_read_bytes returned
ReportRead(n) ==
    /\ pc = "poll"
    /\ bytesRead < ReportSize
    /\ n \in ReadResults
    /\ IF n > 0
       THEN /\ reportBytes' = SubSeq(reportBytes, 1, bytesRead)
                              \o SubSeq(stream, delivered + 1, delivered + n)
            /\ delivered' = delivered + n
            /\ bytesRead' = bytesRead + n
            /\ RetriesKept
            /\ IF bytesRead' < ReportSize THEN Again ELSE Parsed(reportBytes')
       ELSE /\ retries' = U8(retries + 1)
            /\ UNCHANGED <<reportBytes, delivered, bytesRead>>
            /\ IF retries > RetryLimit THEN TimedOut ELSE Again
    /\ UNCHANGED <<op, console, trace, reportBefore, stream, wrote>>
    /\ UNCHANGED <<pending, installed>>
    /\ UNCHANGED <<codecVars, rxVars>>

\* the owner of the driver assigns the public member report: m16.report.reserved
\* = v; m16.report.reserved2 = w; between two calls
assignReserved(v, w) ==
    /\ pc = "idle"
    /\ pc' = "idle"
    /\ op' = [name |-> "assignReserved", args |-> <<v, w>>]
    /\ result' = "void"
    /\ console' = ""
    /\ trace' = <<>>
    /\ UNCHANGED <<pending, installed>>
    /\ reportBefore' = report
    /\ report' = [report EXCEPT !.reserved = v, !.reserved2 = w]
    /\ NoLocals
    /\ wrote' = 0
    /\ UNCHANGED countVars
    /\ UNCHANGED <<codecVars, rxVars>>

\* requestReport up to its first uart_read_bytes
requestReportBegin(s) == ReportBegin(s) /\ UNCHANGED countVars

\* requestReport after its vTaskDelay: the second sendByte(0x72), then the loop
requestReportResume == Wake("requestReport", "poll", "none") /\ UNCHANGED countVars

\* requestReport from one uart_read_bytes to the next, or to its return
requestReportRead(n) == ReportRead(n) /\ UNCHANGED countVars

\* the same two steps, with the uart_read_bytes calls of the call counted
requestReportBeginCounted(s) ==
    /\ ReportBegin(s)
    /\ attempts' = 0
    /\ UNCHANGED <<modeCalls, modeBytes, stale>>

requestReportReadCounted(n) ==
    /\ ReportRead(n)
    /\ attempts' = attempts + 1
    /\ UNCHANGED <<modeCalls, modeBytes, stale>>

\* a data packet of the modem: the two bytes of the word of (1, 2, 52)
IncomingPacket == <<U8(Shr(M16_encode(1, 2, 52), 8)), U8(M16_encode(1, 2, 52))>>

\* requestReport called while the first k bytes of an incoming packet are
\* unread in the UART input buffer; the call does not flush the input, so its
\* reads get these bytes first and the bytes of s after them
requestReportBeginBuffered(k, s) ==
    /\ k > 0 => installed
    /\ ReportBegin(SubSeq(IncomingPacket, 1, k) \o s)
    /\ stale' = k
    /\ UNCHANGED <<modeCalls, modeBytes, attempts>>

---------------------------------------------------------------------------
(* M16::getRxBuffLength and M16::readRxBuff over the UART input buffer.    *)

\* the modem delivers one more byte; the UART driver stores it at any moment,
\* also between the statements of a call
arrive ==
    /\ installed
    /\ rxSent < MaxRx
    /\ rxSent' = rxSent + 1
    /\ rxBuf' = Append(rxBuf, rxSent + 1)
    /\ UNCHANGED <<rxPc, rxLen, rxArg, rxNum, rxData, appData>>
    /\ UNCHANGED <<codecVars, sessionVars>>

\* what "size_t buffered_size" holds when uart_get_buffered_data_len fails and
\* stores nothing: whatever was at its place on the stack
UninitLengths == 0 .. MaxUninitLen \cup {Pow2(30)}

\* what getRxBuffLength may return: the number of buffered bytes, or the
\* uninitialised buffered_size when the driver is not installed
BufferedLengths == IF installed THEN {Len(rxBuf)} ELSE UninitLengths

\* uart_get_buffered_data_len(uart_num, &buffered_size); return buffered_size
getRxBuffLength ==
    /\ rxPc = "idle"
    /\ rxLen' \in BufferedLengths
    /\ UNCHANGED <<rxPc, rxBuf, rxSent, rxArg, rxNum, rxData, appData>>
    /\ UNCHANGED <<codecVars, sessionVars>>

\* what uart_read_bytes(data, length, 100 ms) may return: -1 (error), or the
\* number of bytes it took from the buffer, at most length; only -1 when the
\* driver is not installed
RxReadResults(length) ==
    IF installed THEN {-1, Min(length, Len(rxBuf))} ELSE {-1}

\* num = uart_read_bytes(uart_num, data, length, pdMS_TO_TICKS(100))
readRxBuffRead(length, n) ==
    /\ rxPc = "idle"
    /\ n \in RxReadResults(length)
    /\ rxPc' = "flush"
    /\ rxArg' = length
    /\ rxNum' = n
    /\ rxData' = IF n > 0 THEN SubSeq(rxBuf, 1, n) ELSE <<>>
    /\ rxBuf' = IF n > 0 THEN SubSeq(rxBuf, n + 1, Len(rxBuf)) ELSE rxBuf
    /\ UNCHANGED <<rxSent, rxLen, appData>>
    /\ UNCHANGED <<codecVars, sessionVars>>

\* a faulty end of readRxBuff: the input is not flushed
bad_readRxBuffFlush_kept ==
    /\ rxPc = "flush"
    /\ rxPc' = "idle"
    /\ UNCHANGED rxBuf
    /\ appData' = appData \o rxData
    /\ rxLen' = -1
    /\ UNCHANGED <<rxSent, rxArg, rxNum, rxData>>
    /\ UNCHANGED <<codecVars, sessionVars>>

\* uart_flush_input(uart_num); return num: the caller has data[0 .. num-1]
readRxBuffFlush ==
    /\ rxPc = "flush"
    /\ rxPc' = "idle"
    /\ rxBuf' = <<>>
    /\ appData' = appData \o rxData
    /\ rxLen' = -1
    /\ UNCHANGED <<rxSent, rxArg, rxNum, rxData>>
    /\ UNCHANGED <<codecVars, sessionVars>>

---------------------------------------------------------------------------
(* The specifications.                                                     *)

DriverIdle ==
    /\ pc = "idle"
    /\ op = [name |-> "none", args |-> <<>>]
    /\ result = "none"
    /\ console = ""
    /\ trace = <<>>
    /\ report = ReportInit
    /\ reportBefore = ReportInit
    /\ reportBytes = <<>>
    /\ retries = 0
    /\ bytesRead = 0
    /\ stream = <<>>
    /\ delivered = 0
    /\ wrote = 0
    /\ pending = <<>>
    /\ installed = FALSE
    /\ modeCalls = 0
    /\ modeBytes = 0
    /\ attempts = 0
    /\ stale = 0
    /\ rxPc = "idle"
    /\ rxBuf = <<>>
    /\ rxSent = 0
    /\ rxLen = -1
    /\ rxArg = 0
    /\ rxNum = 0
    /\ rxData = <<>>
    /\ appData = <<>>

\* the state after construction: M16 m16(uart_num), and no codec call yet
Init == CodecIdle /\ DriverIdle

\* the calls an application makes on the driver
Next ==
    \/ \E cfgOk \in BOOLEAN, pinOk \in BOOLEAN, instOk \in BOOLEAN :
          begin(cfgOk, pinOk, instOk)
    \/ switchOperationMode
    \/ switchOperationModeResume
    \/ \E channel \in ArgVals : setCommunicationChannel(channel)
    \/ setCommunicationChannelResume
    \/ \E powerLevel \in ArgVals : setPowerLevel(powerLevel)
    \/ setPowerLevelResume
    \/ \E packet \in FewFrames, tx \in WriteResults :
          sendPacket(packet.id, packet.command, packet.data, tx)
    \/ \E packet \in FewFrames, tx \in WriteResults : sendPacketFrame(packet, tx)
    \/ \E s \in Streams : requestReportBegin(s)
    \/ requestReportResume
    \/ \E n \in -1 .. ReportSize : requestReportRead(n)

Spec == Init /\ [][Next]_vars

\* the calls that make no read, on every uint8_t argument
CommandNext ==
    \/ \E cfgOk \in BOOLEAN, pinOk \in BOOLEAN, instOk \in BOOLEAN :
          begin(cfgOk, pinOk, instOk)
    \/ switchOperationMode
    \/ switchOperationModeResume
    \/ \E channel \in 0 .. 255 : setCommunicationChannel(channel)
    \/ setCommunicationChannelResume
    \/ \E powerLevel \in 0 .. 255 : setPowerLevel(powerLevel)
    \/ setPowerLevelResume
    \/ \E id \in SendFieldVals, command \in SendFieldVals, data \in SendDataVals,
          tx \in WriteResults :
          sendPacket(id, command, data, tx)
    \/ \E packet \in SendFrames, tx \in WriteResults : sendPacketFrame(packet, tx)

CommandSpec == Init /\ [][CommandNext]_vars

\* the same calls, with the switchOperationMode calls counted, while the
\* modem delivers bytes
ModeNext ==
    \/ \E cfgOk \in BOOLEAN, pinOk \in BOOLEAN, instOk \in BOOLEAN :
          begin(cfgOk, pinOk, instOk)
    \/ arrive
    \/ switchOperationModeCounted
    \/ switchOperationModeResumeCounted
    \/ \E channel \in ArgVals : setCommunicationChannel(channel)
    \/ setCommunicationChannelResume
    \/ \E powerLevel \in ArgVals : setPowerLevel(powerLevel)
    \/ setPowerLevelResume
    \/ \E packet \in FewFrames, tx \in WriteResults :
          sendPacket(packet.id, packet.command, packet.data, tx)

ModeSpec == Init /\ [][ModeNext]_vars

\* the calls of the earlier driver that differ from the current driver's
LegacySendNext ==
    \/ \E cfgOk \in BOOLEAN, pinOk \in BOOLEAN, instOk \in BOOLEAN :
          legacy_begin(cfgOk, pinOk, instOk)
    \/ \E ID \in LegacyIds, data \in DataVals, tx \in WriteResults :
          legacy_sendPacket(ID, data, tx)
    \/ \E byte \in {0, ModeTrigger, 255} : legacy_sendByte_TEST(byte)
    \/ \E channel \in ArgVals \cup {255} : legacy_setCommunicationChannel(channel)
    \/ legacy_setCommunicationChannelResume

LegacySendSpec == Init /\ [][LegacySendNext]_vars

\* calls of getRxBuffLength and readRxBuff while the modem delivers bytes
RxNext ==
    \/ \E cfgOk \in BOOLEAN, pinOk \in BOOLEAN, instOk \in BOOLEAN :
          begin(cfgOk, pinOk, instOk)
    \/ arrive
    \/ getRxBuffLength
    \/ \E length \in 0 .. MaxRxLen, n \in -1 .. MaxRxLen : readRxBuffRead(length, n)
    \/ readRxBuffFlush

RxSpec == Init /\ [][RxNext]_vars

\* setup() of the receive example: m16.begin(RX_GPIO, TX_GPIO), once
setup(cfgOk, pinOk, instOk) == op.name = "none" /\ begin(cfgOk, pinOk, instOk)

\* setup() of the receive example built with the earlier driver, whose header
\* declares the getRxBuffLenght the example calls
legacy_setup(cfgOk, pinOk, instOk) ==
    op.name = "none" /\ legacy_begin(cfgOk, pinOk, instOk)

\* "uint8_t data[len]": the array is on the stack of the task. The lengths of
\* the model are at most MaxUninitLen, which fit, or 2^30, beyond any stack
ArrayFits(len) == len < Pow2(30)

\* what an element of data[] holds that uart_read_bytes did not write: what
\* was on the stack, any byte
UninitBytes == 0 .. 255

\* n such elements
UninitData(n) == [1 .. n -> UninitBytes]

\* loop() of the receive example: "size_t len = m16.getRxBuffLenght();". A
\* length that fits the stack is followed while the elements it makes the loop
\* print without a driver stay within MaxGarbage
loopQuery ==
    /\ op.name \in {"begin", "legacy_begin"}
    /\ rxLen <= 0
    /\ installed \/ Len(appData) < MaxGarbage
    /\ getRxBuffLength
    /\ (~installed /\ ArrayFits(rxLen')) => Len(appData) + rxLen' <= MaxGarbage

\* "if (len > 0) { uint8_t data[len]; m16.readRxBuff(data, len);": on an
\* installed driver the len bytes are in the buffer, so uart_read_bytes returns
\* them at once
loopRead ==
    /\ rxLen > 0
    /\ ArrayFits(rxLen)
    /\ readRxBuffRead(rxLen, IF installed THEN Min(rxLen, Len(rxBuf)) ELSE -1)

\* "if (len > 0) { uint8_t data[len];" with an array the stack cannot hold:
\* the task is killed before readRxBuff is called
loopKilled ==
    /\ rxPc = "idle"
    /\ rxLen > 0
    /\ ~ArrayFits(rxLen)
    /\ rxPc' = "killed"
    /\ UNCHANGED <<rxBuf, rxSent, rxLen, rxArg, rxNum, rxData, appData>>
    /\ UNCHANGED <<codecVars, sessionVars>>

\* the end of readRxBuff (uart_flush_input, return num) and the rest of the
\* loop body: the number returned is dropped and data[0 .. len-1] is printed,
\* the bytes read followed by the elements nothing was written to
loopPrint ==
    /\ rxPc = "flush"
    /\ rxPc' = "idle"
    /\ rxBuf' = <<>>
    /\ \E rest \in UninitData(rxArg - Len(rxData)) :
          appData' = appData \o rxData \o rest
    /\ rxLen' = -1
    /\ UNCHANGED <<rxSent, rxArg, rxNum, rxData>>
    /\ UNCHANGED <<codecVars, sessionVars>>

\* the receive example running while the modem delivers bytes
LoopNext ==
    \/ \E cfgOk \in BOOLEAN, pinOk \in BOOLEAN, instOk \in BOOLEAN :
          setup(cfgOk, pinOk, instOk)
    \/ \E cfgOk \in BOOLEAN, pinOk \in BOOLEAN, instOk \in BOOLEAN :
          legacy_setup(cfgOk, pinOk, instOk)
    \/ arrive
    \/ loopQuery
    \/ loopRead
    \/ loopKilled
    \/ loopPrint

LoopSpec == Init /\ [][LoopNext]_vars

\* requestReport calls on the documented response, with the reads counted
PollStreams == {ExampleStream}

PollNext ==
    \/ \E cfgOk \in BOOLEAN, pinOk \in BOOLEAN, instOk \in BOOLEAN :
          begin(cfgOk, pinOk, instOk)
    \/ \E s \in PollStreams : requestReportBeginCounted(s)
    \/ requestReportResume
    \/ \E n \in -1 .. ReportSize : requestReportReadCounted(n)

PollSpec == Init /\ [][PollNext]_vars

\* uart_read_bytes waits at most 10 ms: a call that is in its loop makes its
\* next read attempt
PollFairSpec ==
    /\ PollSpec
    /\ WF_vars(requestReportResume)
    /\ WF_vars(\E n \in -1 .. ReportSize : requestReportReadCounted(n))

\* requestReport calls with up to MaxStale unread bytes in the input buffer
BufferedNext ==
    \/ \E cfgOk \in BOOLEAN, pinOk \in BOOLEAN, instOk \in BOOLEAN :
          begin(cfgOk, pinOk, instOk)
    \/ requestReportResume
    \/ \E k \in 0 .. MaxStale, s \in PollStreams : requestReportBeginBuffered(k, s)
    \/ \E n \in -1 .. ReportSize : requestReportRead(n)

BufferedSpec == Init /\ [][BufferedNext]_vars

\* responses that differ in the two packed bytes: reportBytes[15] takes every
\* value, reportBytes[16] every low nibble under the high nibbles 0x0 and 0xF
StatusStreams ==
    UNION {{[ExampleStream EXCEPT ![16] = x, ![17] = y] :
               y \in {x % 16, 255 - (x % 16)}} : x \in 0 .. 255}

\* the owner writes the reserved members after begin, before any other call
assignReservedFirst(v, w) == op.name = "begin" /\ assignReserved(v, w)

\* the first requestReport call, on a driver that is installed
requestReportFirst(s) ==
    /\ installed
    /\ op.name \in {"begin", "assignReserved"}
    /\ requestReportBegin(s)

\* one requestReport call whose first read returns the whole response, after
\* the owner may have written the reserved members
StatusNext ==
    \/ \E cfgOk \in BOOLEAN, pinOk \in BOOLEAN, instOk \in BOOLEAN :
          setup(cfgOk, pinOk, instOk)
    \/ requestReportResume
    \/ \E v \in 0 .. MaxReserved, w \in 0 .. MaxReserved : assignReservedFirst(v, w)
    \/ \E s \in StatusStreams : requestReportFirst(s)
    \/ requestReportRead(ReportSize)

StatusSpec == Init /\ [][StatusNext]_vars

\* requestReport calls on two responses of different content, the second
\* without the markers 0xAA and 0x55, with the reads counted
ContentStreams == {ExampleStream, GenStream(1)}

ContentNext ==
    \/ \E cfgOk \in BOOLEAN, pinOk \in BOOLEAN, instOk \in BOOLEAN :
          begin(cfgOk, pinOk, instOk)
    \/ requestReportResume
    \/ \E s \in ContentStreams : requestReportBeginCounted(s)
    \/ \E n \in -1 .. ReportSize : requestReportReadCounted(n)

ContentSpec == Init /\ [][ContentNext]_vars

\* requestReport calls on a driver whose owner writes to the report
OwnerStreams == {ExampleStream, GenStream(1)}

OwnerNext ==
    \/ \E cfgOk \in BOOLEAN, pinOk \in BOOLEAN, instOk \in BOOLEAN :
          begin(cfgOk, pinOk, instOk)
    \/ requestReportResume
    \/ \E v \in 0 .. MaxReserved, w \in 0 .. MaxReserved : assignReserved(v, w)
    \/ \E s \in OwnerStreams : requestReportBegin(s)
    \/ \E n \in -1 .. ReportSize : requestReportRead(n)

OwnerSpec == Init /\ [][OwnerNext]_vars

\* the calls on the two codecs, on drawn inputs
CodecInit == CodecInputs /\ DriverIdle

CodecNext ==
    \/ CallEncode
    \/ CallDecodeEncoded
    \/ CallDecode

CodecSpec == CodecInit /\ [][CodecNext]_vars

\* the calls on the earlier coder_decoder: code, then decode as main() does
CodeInputs ==
    /\ layout = "3-3-10-code"
    /\ encArgs \in FittingArgs(layout) \cup WideArgs
    /\ word = -1
    /\ decIn = -1
    /\ frameOut = NoFrame

CodeInit == CodeInputs /\ DriverIdle

CodeNext ==
    \/ CallEncode
    \/ CallDecodeEncoded

CodeSpec == CodeInit /\ [][CodeNext]_vars

\* every unsigned short, or every 2-byte buffer, handed to a decode
DecodeLayouts == {"3-3-10", "4-4-8", "4-4-8-bytes"}

DecodeInputs ==
    /\ layout \in DecodeLayouts
    /\ encArgs = NoArgs
    /\ word = -1
    /\ decIn \in 0 .. 65535
    /\ frameOut = NoFrame

DecodeInit == DecodeInputs /\ DriverIdle

DecodeNext == CallDecode

DecodeSpec == DecodeInit /\ [][DecodeNext]_vars

\* every unsigned short decoded, and the frame encoded again
WordInputs ==
    /\ layout \in Layouts
    /\ encArgs = NoArgs
    /\ word = -1
    /\ decIn \in 0 .. 65535
    /\ frameOut = NoFrame

WordInit == WordInputs /\ DriverIdle

WordNext ==
    \/ CallDecode
    \/ CallEncodeDecoded

WordSpec == WordInit /\ [][WordNext]_vars

---------------------------------------------------------------------------
(* Properties of the codec, checked under CodecSpec.                       *)

\* an encode call has returned
Encoded == encArgs # NoArgs /\ word # -1
\* the word an encode call returned has been decoded
RoundTripped == Encoded /\ decIn = word /\ frameOut # NoFrame

\* C1: round trip. When id < 2^idBits, data < 2^dataBits and command is an
\* enumerator, decode(encode(id, command, data)) is exactly (id, command, data),
\* for the 3-3-10 layout (coder_decoder) and for the 4-4-8 layout (M16).
C1_RoundTrip ==
    (/\ RoundTripped
     /\ encArgs.id < Pow2(IdBits(layout))
     /\ encArgs.data < Pow2(DataBits(layout))
     /\ encArgs.command \in Commands(layout))
    => /\ frameOut.id = encArgs.id
       /\ frameOut.command = encArgs.command
       /\ frameOut.data = encArgs.data

\* main(): id 0b101, TEST, data 341 gives 0b101_101_0101010101 and comes back
C1_Witness ==
    /\ RoundTripped
    /\ layout = "3-3-10"
    /\ encArgs = [id |-> 5, command |-> 5, data |-> 341]
    /\ word = 46421
    /\ frameOut = [id |-> 5, command |-> 5, data |-> 341]

\* C2: truncation. For every id, command and data handed to encode, the word is
\* the one encode returns for the arguments masked to their field widths, and
\* each field of the word holds the masked argument alone: the excess bits of
\* one argument reach no other field. Both layouts.
C2_Truncation ==
    Encoded =>
        LET ib == IdBits(layout)
            cb == CommandBits(layout)
            db == DataBits(layout)
            mid == encArgs.id % Pow2(ib)
            mcommand == encArgs.command % Pow2(cb)
            mdata == encArgs.data % Pow2(db)
        IN  /\ ib + cb + db = 16
            /\ word = Encode(layout, mid, mcommand, mdata)
            /\ word = mid * Pow2(cb + db) + mcommand * Pow2(db) + mdata

\* encode(0xFF, 0xFF, 0xFFFF) under 3-3-10 is encode(7, 7, 1023) = 0xFFFF, and
\* a wide command leaves a zero id field alone
C2_Witness ==
    /\ Encoded
    /\ layout = "3-3-10"
    /\ \/ encArgs = [id |-> 255, command |-> 255, data |-> 65535] /\ word = 65535
       \/ encArgs = [id |-> 0, command |-> 255, data |-> 0] /\ word = 7168

---------------------------------------------------------------------------
(* Properties of requestReport, checked under Spec.                        *)

\* requestReport has returned
ReportReturned == op.name = "requestReport" /\ pc = "idle"

\* C3: with a transport that hands over no byte on any read, requestReport
\* returns false after exactly 100 read attempts. Every attempt that yields
\* no byte increments retries, the failing one included, so at the return
\* retries is the number of such attempts.
C3_FailsAfterRetryBound ==
    (ReportReturned /\ result = "false" /\ delivered = 0) => retries = 100

\* C4: no partial report. While requestReport polls, and when it has returned
\* false, every member of report has the value it had when the call started,
\* whatever number of bytes was collected.
C4_NoPartialReport ==
    (op.name = "requestReport" /\ (pc # "idle" \/ result = "false"))
    => report = reportBefore

\* a second call times out with 17 bytes collected, after a first one succeeded
C4_Witness ==
    /\ ReportReturned
    /\ result = "false"
    /\ bytesRead = 17
    /\ reportBefore # ReportInit
    /\ report = reportBefore

\* C5, in every state of a call: the collected count is at most 18, and the
\* collected bytes are the bytes handed over so far, in arrival order. A call
\* that got 18 bytes returned true with the report parsed from them; a call
\* returned false only after more than 100 attempts that yielded no byte.
C5_Collected ==
    op.name = "requestReport" =>
        /\ bytesRead <= 18
        /\ bytesRead = delivered
        /\ reportBytes = SubSeq(stream, 1, delivered)
        /\ (pc = "idle" /\ delivered = 18) =>
              /\ result = "true"
              /\ report = ParseReport(reportBefore, SubSeq(stream, 1, 18))
        /\ (pc = "idle" /\ retries <= 100) => result = "true"
        /\ (pc = "idle" /\ result = "true") => delivered = 18

\* C5, in every read: at most 18 minus the collected count is handed over
C5_ReadStep ==
    (pc = "poll" /\ op.name = "requestReport")
    => delivered' - delivered <= 18 - bytesRead

\* C5: report assembly across partial reads.
C5_Assembly == [](C5_Collected) /\ [][C5_ReadStep]_vars

\* the 18 bytes of the example arrived, with 100 empty attempts on the way
C5_Witness ==
    /\ ReportReturned
    /\ result = "true"
    /\ retries = 100
    /\ reportBytes = ExampleReport
    /\ report.chipID = 4660

\* C6: report parsing. After a successful requestReport on bytes b[0..17] the
\* members of report are the documented fields of b; reserved and reserved2
\* keep their values.
C6_Parse ==
    (ReportReturned /\ result = "true") =>
        LET b(i) == reportBytes[i + 1]
        IN  /\ Len(reportBytes) = 18
            /\ report.startOfFrame = b(0)
            /\ report.transportBlock = b(1) * 256 + b(2)
            /\ report.bitErrorRate = b(3)
            /\ report.signalPower = b(4)
            /\ report.noisePower = b(5)
            /\ report.packetValid = b(6) * 256 + b(7)
            /\ report.packedInvalid = b(8)
            /\ report.firmwareVersion = b(9)
            /\ report.timeSinceBoot = b(10) * 65536 + b(11) * 256 + b(12)
            /\ report.chipID = b(13) * 256 + b(14)
            /\ report.hwRev = b(15) % 4
            /\ report.channel = (b(15) \div 4) % 16
            /\ report.tbValid = (b(15) \div 64) % 2
            /\ report.txComplete = (b(15) \div 128) % 2
            /\ report.diagnostic = b(16) % 2
            /\ report.powerLevel = (b(16) \div 4) % 4
            /\ report.endOfFrame = b(17)
            /\ reportBytes = ExampleReport =>
                  /\ report.startOfFrame = 170
                  /\ report.transportBlock = 258
                  /\ report.chipID = 4660
                  /\ report.hwRev = 1
                  /\ report.channel = 13
                  /\ report.tbValid = 0
                  /\ report.txComplete = 1
                  /\ report.powerLevel = 1

\* the documented example, handed over in one read
C6_Witness ==
    /\ ReportReturned
    /\ result = "true"
    /\ retries = 0
    /\ reportBytes = ExampleReport
    /\ report.channel = 13
    /\ report.endOfFrame = 85

---------------------------------------------------------------------------
(* Properties of setCommunicationChannel and setPowerLevel, checked under  *)
(* CommandSpec.                                                            *)

\* the last call was setCommunicationChannel / setPowerLevel with this argument
ChannelCall(channel) == op.name = "setCommunicationChannel" /\ op.args = <<channel>>
PowerCall(powerLevel) == op.name = "setPowerLevel" /\ op.args = <<powerLevel>>

\* the last call had an argument outside its documented range
InvalidCall ==
    \/ \E channel \in 0 .. 255 : ChannelCall(channel) /\ (channel < 1 \/ channel > 12)
    \/ \E powerLevel \in 0 .. 255 : PowerCall(powerLevel) /\ (powerLevel < 1 \/ powerLevel > 4)

\* the last call had an argument inside its documented range
ValidCall ==
    \/ \E channel \in 1 .. 12 : ChannelCall(channel)
    \/ \E powerLevel \in 1 .. 4 : PowerCall(powerLevel)

\* C7: invalid arguments send nothing. A setCommunicationChannel call with a
\* channel outside 1..12, or a setPowerLevel call with a level outside 1..4,
\* writes no byte and performs no delay, for every uint8_t argument.
C7_InvalidSendsNothing == InvalidCall => trace = <<>>

\* setCommunicationChannel(13) and setPowerLevel(255) have returned
C7_Witness ==
    /\ ChannelCall(13) \/ PowerCall(255)
    /\ trace = <<>>

\* C8 as stated: an invalid call ends with an outcome that a valid call does not
\* give. A valid call returns nothing and prints nothing.
C8_InvalidReported ==
    InvalidCall => (result # "void" \/ console # "")

\* C9: channel-set sequence. For every channel in 1..12 the call emits write
\* 0x63, delay 1000, write 0x63, delay 1, write c, and nothing else, with c the
\* digit of the channel for 1..9 and 'a', 'b', 'c' for 10..12; no other
\* channel gives the same last byte.
C9_ChannelSequence ==
    \A channel \in 1 .. 12 :
        ChannelCall(channel) =>
            LET c == IF channel <= 9 THEN 48 + channel ELSE 97 + (channel - 10)
                emitted == trace \o pending
            IN  /\ emitted = <<Write(<<99>>), Delay(1000), Write(<<99>>),
                               Delay(1), Write(<<c>>)>>
                /\ pc = "idle" => pending = <<>>
                /\ channel = 1 => emitted[5].bytes = <<49>>
                /\ channel = 12 => emitted[5].bytes = <<99>>
                /\ \A other \in (1 .. 12) \ {channel} :
                      ChannelChar(other) # emitted[5].bytes[1]

\* setCommunicationChannel(12) has returned, its last byte 'c'; or (10), 'a'
C9_Witness ==
    /\ pc = "idle"
    /\ \/ ChannelCall(12) /\ Len(trace) = 5 /\ trace[5] = Write(<<99>>)
       \/ ChannelCall(10) /\ Len(trace) = 5 /\ trace[5] = Write(<<97>>)

\* C10: power-set sequence. For every level in 1..4 the call emits write
\* 0x6C, delay 1000, write 0x6C, delay 1500, write '0' + level, and nothing else.
C10_PowerSequence ==
    \A powerLevel \in 1 .. 4 :
        PowerCall(powerLevel) =>
            /\ trace \o pending = <<Write(<<108>>), Delay(1000), Write(<<108>>),
                                    Delay(1500), Write(<<48 + powerLevel>>)>>
            /\ pc = "idle" => pending = <<>>

\* setPowerLevel(4) has returned, its last byte '4'
C10_Witness ==
    /\ PowerCall(4)
    /\ pc = "idle"
    /\ Len(trace) = 5
    /\ trace[4] = Delay(1500)
    /\ trace[5] = Write(<<52>>)

---------------------------------------------------------------------------
(* Properties of switchOperationMode, checked under ModeSpec.              *)

\* C11: mode switch. Every switchOperationMode call emits write 0x6D, delay
\* 1000 ms, write 0x6D and nothing else, and returns without a read from the
\* line; after n such calls, whatever other calls came between them, exactly
\* 2n bytes 0x6D have been written by them.
C11_ModeSwitch ==
    /\ op.name = "switchOperationMode" =>
          /\ trace \o pending = <<Write(<<109>>), Delay(1000), Write(<<109>>)>>
          /\ pc = "idle" => pending = <<>>
          /\ pc = "delay" => (trace = <<Write(<<109>>)>> /\ modeBytes = 2 * modeCalls - 1)
          /\ pc # "poll"
          /\ delivered = 0
          /\ attempts = 0
    /\ (pc = "idle" \/ op.name # "switchOperationMode") => modeBytes = 2 * modeCalls

\* the third call has returned, the sixth byte 0x6D written
C11_Witness ==
    /\ op.name = "switchOperationMode"
    /\ pc = "idle"
    /\ rxBuf # <<>>
    /\ modeCalls = 3
    /\ modeBytes = 6

---------------------------------------------------------------------------
(* Properties of sendPacket, checked under CommandSpec.                    *)

\* the last call was one of the two public sendPacket overloads
SendCall == op.name \in {"sendPacket", "sendPacketFrame"}

\* C12: sendPacket wire format. sendPacket(frame) and sendPacket(id, command,
\* data) make one transport write of exactly two bytes, the high byte and then
\* the low byte of (id mod 16) * 4096 + (command mod 16) * 256 + (data mod 256),
\* and return true, whether the transport accepted the write or failed it.
C12_SendPacketWire ==
    SendCall =>
        LET w == (op.args[1] % 16) * 4096 + (op.args[2] % 16) * 256
                 + (op.args[3] % 256)
        IN  /\ trace = <<Write(<<w \div 256, w % 256>>)>>
            /\ w = M16_encode(op.args[1], op.args[2], op.args[3])
            /\ wrote \in {-1, 2}
            /\ result = "true"

\* sendPacket({15, 255, 341}) wrote 0xFF 0x55 and the write failed; or
\* sendPacket(1, 15, 255) wrote 0x1F 0xFF
C12_Witness ==
    \/ /\ op = [name |-> "sendPacketFrame", args |-> <<15, 255, 341>>]
       /\ trace = <<Write(<<255, 85>>)>>
       /\ wrote = -1
       /\ result = "true"
    \/ /\ op = [name |-> "sendPacket", args |-> <<1, 15, 255>>]
       /\ trace = <<Write(<<31, 255>>)>>
       /\ wrote = -1
       /\ result = "true"

---------------------------------------------------------------------------
(* Properties of the decodes, checked under DecodeSpec.                    *)

\* a decode call on a drawn word or buffer has returned
Decoded == encArgs = NoArgs /\ decIn # -1 /\ frameOut # NoFrame

\* C13: byte-array decode equals word decode. For every pair of bytes (b0, b1),
\* M16::decode on the buffer [b0, b1] returns the frame that M16::decode on the
\* word b0 * 256 + b1 returns: id the high nibble of b0, command its low nibble,
\* data b1.
C13_BytesAsWord ==
    (Decoded /\ layout = "4-4-8-bytes") =>
        LET b0 == decIn \div 256
            b1 == decIn % 256
        IN  /\ frameOut = M16_decode(b0 * 256 + b1)
            /\ frameOut = [id |-> b0 \div 16, command |-> b0 % 16, data |-> b1]

\* the buffer [0xA5, 0xC3] decodes to id 10, command 5, data 195
C13_Witness ==
    /\ Decoded
    /\ layout = "4-4-8-bytes"
    /\ decIn = 42435
    /\ frameOut = [id |-> 10, command |-> 5, data |-> 195]
    /\ frameOut = M16_decode(42435)

\* C14: decode is total. For every 16-bit word a decode call is possible and
\* returns a frame with id < 2^idBits, command < 2^commandBits and
\* data < 2^dataBits, each the field of the word at its place; a command
\* pattern that matches no enumerator comes back as its integer value.
C14_DecodeTotal ==
    /\ (encArgs = NoArgs /\ decIn # -1 /\ frameOut = NoFrame) => ENABLED CallDecode
    /\ (Decoded /\ layout \in {"3-3-10", "4-4-8"}) =>
          LET ib == IdBits(layout)
              cb == CommandBits(layout)
              db == DataBits(layout)
          IN  /\ frameOut.id < Pow2(ib)
              /\ frameOut.command < Pow2(cb)
              /\ frameOut.data < Pow2(db)
              /\ frameOut.id = decIn \div Pow2(cb + db)
              /\ frameOut.command = (decIn \div Pow2(db)) % Pow2(cb)
              /\ frameOut.data = decIn % Pow2(db)

\* 0x0F00 under 4-4-8 gives command 15 and 0x1C00 under 3-3-10 gives command
\* 7: neither is an enumerator
C14_Witness ==
    /\ Decoded
    /\ \/ layout = "4-4-8" /\ decIn = 3840 /\ frameOut.command = 15
       \/ layout = "3-3-10" /\ decIn = 7168 /\ frameOut.command = 7
    /\ frameOut.command \notin Commands(layout)

---------------------------------------------------------------------------
(* Properties of the polling loop, checked under PollSpec.                 *)

\* C15 as stated: in a requestReport call the number of read attempts is at
\* most the retry limit of 100, so the call blocks for at most 100 x 10 ms plus
\* the 1000 ms delay.
C15_WithinRetryLimit ==
    op.name = "requestReport" =>
        /\ attempts <= 100
        /\ 1000 + attempts * 10 <= 1000 + 100 * 10

\* C15 as the code has it: retries counts only the attempts that yield no
\* byte, and the call fails on the 102nd of them; an attempt that yields bytes
\* yields at least one of the 18. So a call makes at most 119 read attempts
\* (at most 102 without a byte, at most 18 with bytes, and not both), and
\* blocks for at most 119 x 10 ms plus the 1000 ms delay.
C15_AttemptBound ==
    op.name = "requestReport" =>
        /\ retries <= 102
        /\ bytesRead <= 18
        /\ retries <= attempts
        /\ attempts <= retries + bytesRead
        /\ attempts <= 119
        /\ 1000 + attempts * 10 <= 2190
        /\ (pc = "idle" /\ result = "false") => (retries = 102 /\ bytesRead <= 17)
        /\ (pc = "idle" /\ result = "true") => (retries <= 101 /\ bytesRead = 18)

\* a call has returned after 119 read attempts: 101 without a byte and 18 that
\* yielded one byte each, or 102 without a byte and 17 with one
C15_Witness ==
    /\ ReportReturned
    /\ attempts = 119
    /\ \/ result = "true" /\ retries = 101
       \/ result = "false" /\ retries = 102 /\ bytesRead = 17

---------------------------------------------------------------------------
(* Properties of the emitted bytes and delays, checked under Spec.         *)

\* the writes among the events of the current / last call
Writes == SelectSeq(trace, LAMBDA e : e.kind = "write")

\* C16, in every state: a requestReport call has written 0x72, delayed 1000 ms
\* and written 0x72 again before its loop is entered, and that is all it
\* emits, whatever the number of retries; every other call emits each write of
\* its sequence once (two for a mode switch, three or none for a channel or
\* power setting, one for a packet).
C16_Emitted ==
    /\ op.name = "requestReport" =>
          /\ trace \o pending = <<Write(<<114>>), Delay(1000), Write(<<114>>)>>
          /\ pc = "delay" => trace = <<Write(<<114>>)>>
          /\ pc # "delay" => (pending = <<>> /\ Len(Writes) = 2)
    /\ (retries > 0 \/ delivered > 0) => (op.name = "requestReport" /\ pc # "delay")
    /\ (pc = "idle" /\ op.name = "switchOperationMode") => Len(Writes) = 2
    /\ (pc = "idle" /\ op.name \in {"setCommunicationChannel", "setPowerLevel"}) =>
          Len(Writes) \in {0, 3}
    /\ op.name \in {"sendPacket", "sendPacketFrame"} => Len(Writes) = 1
    /\ op.name = "begin" => Len(Writes) = 0

\* C16, in every step: a read of the polling loop is made after the second
\* write of the trigger and writes nothing.
C16_ReadStep ==
    (pc = "poll" /\ (retries' # retries \/ delivered' # delivered))
    => /\ Len(trace) = 3
       /\ trace' = trace

\* C16: report-request trigger ordering.
C16_TriggerOrder == [](C16_Emitted) /\ [][C16_ReadStep]_vars

\* a call has returned false after 102 empty reads and 17 bytes: the trigger
\* was written twice
C16_Witness ==
    /\ ReportReturned
    /\ result = "false"
    /\ retries = 102
    /\ bytesRead = 17
    /\ Writes = <<Write(<<114>>), Write(<<114>>)>>

\* what a call emits, by its name and arguments alone
EmittedBy(name, args) ==
    CASE name \in {"none", "begin"} -> <<>>
      [] name = "switchOperationMode" ->
            <<Write(<<109>>), Delay(1000), Write(<<109>>)>>
      [] name = "setCommunicationChannel" ->
            IF args[1] \in 1 .. 12
            THEN <<Write(<<99>>), Delay(1000), Write(<<99>>), Delay(1),
                   Write(<<IF args[1] <= 9 THEN 48 + args[1] ELSE 87 + args[1]>>)>>
            ELSE <<>>
      [] name = "setPowerLevel" ->
            IF args[1] \in 1 .. 4
            THEN <<Write(<<108>>), Delay(1000), Write(<<108>>), Delay(1500),
                   Write(<<48 + args[1]>>)>>
            ELSE <<>>
      [] name \in {"sendPacket", "sendPacketFrame"} ->
            <<Write(<<(args[1] % 16) * 16 + (args[2] % 16), args[3] % 256>>)>>
      [] name = "requestReport" ->
            <<Write(<<114>>), Delay(1000), Write(<<114>>)>>

\* C17, in every state: the bytes and delays of the current / last call are
\* those of its name and arguments, whatever the report holds and whatever
\* calls came before.
C17_Emitted ==
    /\ trace \o pending = EmittedBy(op.name, op.args)
    /\ pc # "delay" => pending = <<>>

\* C17, in every step that starts a call: what is emitted is that of the
\* call's name and arguments, also when the call before was a requestReport
\* that timed out or one that filled the report.
C17_CallStep ==
    (pc = "idle" /\ op.name = "requestReport" /\ result \in {"true", "false"})
    => trace' \o pending' = EmittedBy(op'.name, op'.args)

\* C17: history independence of what the calls emit.
C17_HistoryIndependent == [](C17_Emitted) /\ [][C17_CallStep]_vars

\* a mode switch, a channel setting or a packet after a requestReport that had
\* filled the report
C17_Witness ==
    /\ report # ReportInit
    /\ report = reportBefore
    /\ \/ op.name = "switchOperationMode"
       \/ op = [name |-> "setCommunicationChannel", args |-> <<12>>]
       \/ op = [name |-> "sendPacket", args |-> <<15, 15, 341>>]
    /\ pc = "idle"
    /\ trace = EmittedBy(op.name, op.args)
    /\ trace # <<>>

---------------------------------------------------------------------------
(* Properties of the report across calls, checked under OwnerSpec.         *)

\* a Report created anew from the 18 bytes b: the documented fields of b, and 0
\* in the two members that no byte is stored in
FreshReport(b) ==
    [startOfFrame |-> b[1],
     transportBlock |-> b[2] * 256 + b[3],
     bitErrorRate |-> b[4],
     signalPower |-> b[5],
     noisePower |-> b[6],
     packetValid |-> b[7] * 256 + b[8],
     packedInvalid |-> b[9],
     firmwareVersion |-> b[10],
     timeSinceBoot |-> b[11] * 65536 + b[12] * 256 + b[13],
     chipID |-> b[14] * 256 + b[15],
     hwRev |-> b[16] % 4,
     channel |-> (b[16] \div 4) % 16,
     tbValid |-> (b[16] \div 64) % 2,
     txComplete |-> (b[16] \div 128) % 2,
     diagnostic |-> b[17] % 2,
     reserved |-> 0,
     powerLevel |-> (b[17] \div 4) % 4,
     reserved2 |-> 0,
     endOfFrame |-> b[18]]

\* C18 as stated: after a successful requestReport the report is the one
\* created anew from the 18 bytes of the call; nothing of what the report held
\* before the call is left.
C18_FreshReport ==
    (ReportReturned /\ result = "true") => report = FreshReport(reportBytes)

\* C18 as the code has it: after a successful requestReport every member but
\* reserved and reserved2 is what the 18 bytes of the call give, whatever the
\* report held before; reserved and reserved2 are not assigned and hold what
\* they held before the call.
C18_ParsedMembersFresh ==
    (ReportReturned /\ result = "true") =>
        /\ [report EXCEPT !.reserved = 0, !.reserved2 = 0]
              = FreshReport(reportBytes)
        /\ report.reserved = reportBefore.reserved
        /\ report.reserved2 = reportBefore.reserved2

\* a second successful call: the parsed members changed, reserved was 1 before
\* the call and is 1 after it
C18_Witness ==
    /\ ReportReturned
    /\ result = "true"
    /\ reportBefore.startOfFrame # 0
    /\ reportBefore.startOfFrame # report.startOfFrame
    /\ reportBefore.endOfFrame # report.endOfFrame
    /\ reportBefore.reserved = 1
    /\ report.reserved = 1

---------------------------------------------------------------------------
(* Properties of the earlier coder and sendPacket, checked under CodeSpec  *)
(* and LegacySendSpec.                                                     *)

\* C19: the earlier coder keeps only the low 3 bits of id and of command. For
\* every id, command and data, the word that code returns has id mod 8 in its
\* top 3 bits, command mod 8 in the next 3 and data mod 1024 in the low 10,
\* and decode of it is (id mod 8, command mod 8, data mod 1024).
C19_CodeKeepsLowBits ==
    /\ (Encoded /\ layout = "3-3-10-code") =>
          word = (encArgs.id % 8) * 8192 + (encArgs.command % 8) * 1024
                 + (encArgs.data % 1024)
    /\ (RoundTripped /\ layout = "3-3-10-code") =>
          frameOut = [id |-> encArgs.id % 8, command |-> encArgs.command % 8,
                      data |-> encArgs.data % 1024]

\* C20: the earlier sendPacket(ID, data) truncates both fields. For every ID
\* and data the call writes, in one write, the high and the low byte of the
\* word with ID mod 8 in its top 3 bits and data mod 8192 in its low 13, and
\* returns true; sendPacket(0x07, 0x1fff) writes 0xFF 0xFF.
C20_LegacyTruncates ==
    op.name = "legacy_sendPacket" =>
        LET w == (op.args[1] % 8) * 8192 + (op.args[2] % 8192)
        IN  /\ trace = <<Write(<<w \div 256, w % 256>>)>>
            /\ result = "true"
            /\ op.args = <<7, 8191>> => trace = <<Write(<<255, 255>>)>>

---------------------------------------------------------------------------
(* Properties of getRxBuffLength and readRxBuff, checked under RxSpec.     *)

\* C21, in every state: what readRxBuff's read returned is at most the length
\* it was called with (or is -1), and the bytes it took are that many.
C21_Bounded ==
    /\ rxNum <= rxArg
    /\ Len(rxData) = (IF rxNum > 0 THEN rxNum ELSE 0)
    /\ Len(rxData) <= rxArg

\* a step of getRxBuffLength: no call of the driver begins or goes on, no
\* byte arrives, and readRxBuff is neither entered nor left
LengthQueried ==
    /\ rxPc = "idle"
    /\ rxPc' = "idle"
    /\ rxSent' = rxSent
    /\ UNCHANGED sessionVars

\* C21, in every step: the return of readRxBuff leaves the input buffer empty
\* and hands over the bytes of its one read; a getRxBuffLength call takes no
\* byte and, on the transport begin() has installed, returns the number of
\* buffered bytes.
C21_Step ==
    /\ (rxPc = "flush" /\ rxPc' = "idle") =>
          /\ rxBuf' = <<>>
          /\ appData' = appData \o rxData
    /\ LengthQueried =>
          /\ installed => rxLen' = Len(rxBuf)
          /\ rxBuf' = rxBuf
          /\ appData' = appData

\* C21: receive drain. readRxBuff(buffer, length) makes one read of at most
\* length bytes and then flushes the input, so it returns a count no greater
\* than length and leaves the input buffer empty; getRxBuffLength returns the
\* transport's buffered length and consumes nothing.
C21_ReceiveDrain == [](C21_Bounded) /\ [][C21_Step]_vars

\* on an installed driver readRxBuff(data, 2) has returned 2 with three bytes
\* delivered: bytes 1 and 2 were handed over and the buffer is empty
C21_Witness ==
    /\ installed
    /\ rxPc = "idle"
    /\ rxSent = 3
    /\ rxArg = 2
    /\ rxNum = 2
    /\ appData = <<1, 2>>
    /\ rxBuf = <<>>

---------------------------------------------------------------------------
(* Properties of the codec on words, checked under WordSpec.               *)

\* the frame decoded from a drawn word has been encoded again
ReEncoded == decIn # -1 /\ frameOut # NoFrame /\ encArgs = frameOut /\ word # -1

\* C22: the codec is a bijection on words. For every 16-bit word w,
\* encode(decode(w)) = w under the 3-3-10 and under the 4-4-8 layout; the
\* field widths add up to 16 and w is id * 2^(cb+db) + command * 2^db + data
\* of its frame, so the frame fixes the word.
C22_WordBijection ==
    ReEncoded =>
        LET cb == CommandBits(layout)
            db == DataBits(layout)
        IN  /\ word = decIn
            /\ IdBits(layout) + cb + db = 16
            /\ decIn = frameOut.id * Pow2(cb + db) + frameOut.command * Pow2(db)
                       + frameOut.data

\* 0xFFFF under 3-3-10 is (7, 7, 1023) and 0xA5C3 under 4-4-8 is (10, 5, 195);
\* both come back
C22_Witness ==
    /\ ReEncoded
    /\ \/ /\ layout = "3-3-10"
          /\ decIn = 65535
          /\ frameOut = [id |-> 7, command |-> 7, data |-> 1023]
          /\ word = 65535
       \/ /\ layout = "4-4-8"
          /\ decIn = 42435
          /\ frameOut = [id |-> 10, command |-> 5, data |-> 195]
          /\ word = 42435

---------------------------------------------------------------------------
(* Termination of the polling loop, checked under PollFairSpec.            *)

\* what is left of the loop: zero-byte attempts before the timeout, and bytes
\* still missing
C23_Measure(r, b) == (102 - r) + (18 - b)

\* the retry counter stays far below 256, and a returned call has either all
\* 18 bytes and result true, or fewer and result false
C23_NoWrap ==
    op.name = "requestReport" =>
        /\ retries <= 102
        /\ retries < 256
        /\ attempts <= 119
        /\ pc = "idle" => \/ result = "true" /\ bytesRead = 18
                          \/ result = "false" /\ bytesRead < 18

\* every read attempt takes the loop strictly nearer to its end
C23_Decreases ==
    pc = "poll" =>
        /\ attempts' = attempts + 1
        /\ C23_Measure(retries', bytesRead') < C23_Measure(retries, bytesRead)
        /\ C23_Measure(retries', bytesRead') >= 0

\* C23: requestReport always terminates. Whatever uart_read_bytes returns at
\* each attempt (-1, 0, or 1 .. the length asked for), a call in its loop
\* returns, after at most 119 attempts, with 18 bytes and true or with false,
\* and retries never passes 102, so its 8 bits never wrap.
C23_Terminates ==
    /\ [](C23_NoWrap)
    /\ [][C23_Decreases]_vars
    /\ (pc # "idle" ~> pc = "idle")

\* a call that got 9 bytes in 3 attempts and nothing in 102 others has
\* returned false
C23_Witness ==
    /\ ReportReturned
    /\ result = "false"
    /\ retries = 102
    /\ bytesRead = 9
    /\ attempts = 105

---------------------------------------------------------------------------
(* The retry counter over a whole call, checked under PollSpec.            *)

\* a call starts with retries at 0; an attempt that yields bytes leaves retries
\* as it is, and an attempt that yields none adds one to it
C24_Step ==
    /\ pc # "poll" /\ pc' = "poll" => retries' = 0
    /\ pc = "poll" =>
           \/ bytesRead' > bytesRead /\ retries' = retries
           \/ bytesRead' = bytesRead /\ retries' = retries + 1

\* a call returns false exactly when the zero-byte attempts of the whole call
\* have passed the limit, however many bytes arrived in between
C24_FailsOnTotal ==
    (op.name = "requestReport" /\ pc = "idle") =>
        /\ result = "false" <=> retries > 101
        /\ result = "false" => attempts - retries <= bytesRead
        /\ result = "true" => retries <= 101

\* C24: retries is cumulative over the call. It counts every read attempt that
\* yields no byte and no attempt that yields bytes sets it back, so a call fails
\* when, and only when, its zero-byte attempts in total pass the limit, also
\* when bytes kept arriving.
C24_Cumulative == [](C24_FailsOnTotal) /\ [][C24_Step]_vars

\* 17 of the 18 bytes arrived, in two attempts, and the call still failed on
\* its 102nd zero-byte attempt
C24_Witness ==
    /\ ReportReturned
    /\ result = "false"
    /\ bytesRead = 17
    /\ attempts = 104
    /\ retries = 102

---------------------------------------------------------------------------
(* The bytes a report is parsed from, checked under BufferedSpec.          *)

\* C25: a successful requestReport parses only response bytes. The 18 bytes in
\* reportBytes when the call returns true are the first 18 that the UART
\* received after the call started to write its trigger, also when unread
\* bytes were in the input buffer at that moment.
C25_OnlyResponseBytes ==
    (ReportReturned /\ result = "true") =>
        /\ reportBytes = SubSeq(stream, stale + 1, stale + ReportSize)
        /\ report.startOfFrame = stream[stale + 1]
        /\ report.endOfFrame = stream[stale + ReportSize]

---------------------------------------------------------------------------
(* The receive example's loop, checked under LoopSpec.                     *)

\* the bytes 1 .. n in the order of their arrival
Arrived(n) == [i \in 1 .. n |-> i]

\* C26: the polling receive loop loses no byte. On the transport setup() has
\* installed, at every moment the bytes handed to the application, then those
\* of a readRxBuff call that has not yet returned, then those still in the
\* input buffer are all the bytes the modem has delivered, each once and in
\* the order of arrival.
C26_NoByteLost ==
    installed =>
        appData \o (IF rxPc = "flush" THEN rxData ELSE <<>>) \o rxBuf = Arrived(rxSent)

---------------------------------------------------------------------------
(* The two packed bytes of the report, checked under StatusSpec.           *)

\* C27: the packed status byte is split without loss or overlap. After a
\* requestReport that returned true, hwRev + 4 * channel + 64 * tbValid +
\* 128 * txComplete is reportBytes[15], with hwRev in 0..3, channel in 0..15,
\* tbValid and txComplete in 0..1; diagnostic is in 0..1 and powerLevel in
\* 0..3 (bit 0 and bits 2-3 of reportBytes[16]); reserved and reserved2 are
\* what they were before the call.
C27_StatusSplit ==
    (ReportReturned /\ result = "true") =>
        LET status == reportBytes[16]
            flags == reportBytes[17]
        IN  /\ report.hwRev + 4 * report.channel + 64 * report.tbValid
               + 128 * report.txComplete = status
            /\ report.hwRev \in 0 .. 3
            /\ report.channel \in 0 .. 15
            /\ report.tbValid \in 0 .. 1
            /\ report.txComplete \in 0 .. 1
            /\ report.diagnostic \in 0 .. 1
            /\ report.diagnostic = flags % 2
            /\ report.powerLevel \in 0 .. 3
            /\ report.powerLevel = (flags \div 4) % 4
            /\ report.reserved = reportBefore.reserved
            /\ report.reserved2 = reportBefore.reserved2

\* the owner had set reserved to 1; the response carried 0x7A and 0xF5 in the
\* packed bytes: hwRev 2, channel 14, tbValid 1, txComplete 0, diagnostic 1,
\* powerLevel 1, and reserved is still 1, reserved2 still 0
C27_Witness ==
    /\ ReportReturned
    /\ result = "true"
    /\ reportBytes[16] = 122
    /\ reportBytes[17] = 245
    /\ report.hwRev = 2
    /\ report.channel = 14
    /\ report.tbValid = 1
    /\ report.txComplete = 0
    /\ report.diagnostic = 1
    /\ report.powerLevel = 1
    /\ reportBefore.reserved = 1
    /\ report.reserved = 1
    /\ report.reserved2 = 0

---------------------------------------------------------------------------
(* The outcome of requestReport and the bytes received, checked under      *)
(* ContentSpec.                                                            *)

\* what decides the course of a call: where it is, its two counters, its
\* result and the attempts made
Control == <<pc, retries, bytesRead, result, attempts>>

\* the control state after a read attempt that yielded n bytes, as a function
\* of the control state before it and of n alone
C28_After(n) ==
    IF n > 0
    THEN IF bytesRead + n < 18
         THEN <<"poll", retries, bytesRead + n, result, attempts + 1>>
         ELSE <<"idle", retries, bytesRead + n, "true", attempts + 1>>
    ELSE IF retries > 100
         THEN <<"idle", retries + 1, bytesRead, "false", attempts + 1>>
         ELSE <<"poll", retries + 1, bytesRead, result, attempts + 1>>

\* a call starts in the same control state whatever the line carries, and every
\* read attempt takes it to the state that the number of bytes yielded decides
C28_Step ==
    /\ (pc = "idle" /\ pc' = "delay" /\ op'.name = "requestReport") =>
           Control' = <<"delay", 0, 0, "none", 0>>
    /\ pc = "delay" => Control' = <<"poll", 0, 0, "none", 0>>
    /\ pc = "poll" => Control' = C28_After(delivered' - delivered)

\* C28: the outcome of requestReport does not depend on the content of the
\* bytes received. Two calls whose read attempts yield the same numbers of
\* bytes go through the same control states, so they return the same result
\* after the same number of attempts, whatever the byte values, wrong
\* start-of-frame and end-of-frame markers included.
C28_ContentIndependent == [][C28_Step]_vars

\* a response that starts with 0x1A and ends with 0x7F was accepted like the
\* documented one: true, after one empty attempt and one of 18 bytes
C28_Witness ==
    /\ ReportReturned
    /\ stream = GenStream(1)
    /\ result = "true"
    /\ attempts = 2
    /\ retries = 1
    /\ report.startOfFrame = 26
    /\ report.endOfFrame = 127

===========================================================================
